---- MODULE Spec2Model ----
(***************************************************************************)
(* Model of monitor-validator-streams.py: the XrplMonitorUtils object, its *)
(* main (connection) thread running run_resilient_connection and its       *)
(* daemon monitoring thread running monitor_response_times.                *)
(*                                                                         *)
(* Time is the integer number of seconds read by time.time().  Time passes *)
(* while both threads are inside a blocking call (time.sleep, connect,     *)
(* recv, the Twilio request); time.sleep(n) returns once at least n        *)
(* seconds have passed, and may return later.                              *)
(***************************************************************************)
EXTENDS Integers, Sequences, FiniteSets, TLC

(* ---------------- program constants (class attributes) ----------------- *)
max_retries == 5
ledger_closed_threshold_seconds == 8
consensus_phase_threshold_seconds == 6
minimum_sms_gap_seconds == 300
monitor_start_delay == 5
monitor_period == 5
retry_delay == 10

\* response_types, in list order; ms_since_last is built in this order and
\* the monitoring thread iterates it in this order.
response_types ==
    <<"ledgerClosed", "serverStatus", "consensusPhase", "response", "totalRuntime">>

Categories == {response_types[i] : i \in 1..Len(response_types)}

(* ------------------------------ bounds --------------------------------- *)
\* time.time() when the object is constructed (the zero sentinel is 0)
StartTime == 100
\* the most inbound messages web_socket.recv() returns in a run
MaxMsgs == 2
\* how many ticks fail with an exception in a run
MaxFaults == 1
\* the most staleness alerts that are counted
MaxAlerts == 2

\* A run follows one of these schedules: the amounts by which the clock
\* advances, in order, and how many inbound messages arrive.
\*  - the first tick falls 8 s after the second instant and 6 s after the
\*    third, and the next tick just over the SMS gap later;
\*  - the first tick, a tick 10 s later, a tick exactly the SMS gap after the
\*    first, then two more ticks, with one inbound message;
\*  - one retry delay after the other, until the retries are used up.
Schedules ==
    { [clock |-> <<5, 2, 6, 301>>, msgs |-> MaxMsgs],
      [clock |-> <<5, 8, 10, 290, 10, 10>>, msgs |-> 1],
      [clock |-> <<10, 10, 10, 10, 10, 10>>, msgs |-> 0] }

(* ------------------------------ inputs --------------------------------- *)
NoTag == "<none>"
\* A raw inbound message: whether it is parsable JSON, and the value of its
\* 'type' key (NoTag when the key is absent).  "other" is a tag outside
\* response_types.
Tags == {"ledgerClosed", "consensusPhase", "serverStatus", "other"}
RawMessages ==
    {[json |-> TRUE, tag |-> t] : t \in Tags \cup {NoTag}}
        \cup {[json |-> FALSE, tag |-> NoTag]}

CredentialValues == {"None", "set"}

VARIABLES
    schedule,           \* the schedule of the run
    now,                \* time.time()
    advances,           \* number of clock advances so far
    twilio_credentials, \* [auth_token, account_sid]
    type_timers,        \* category -> time last received
    ms_since_last,      \* category -> elapsed time computed by the last tick
    reconnect_count,
    sup_pc,             \* main thread: "connect", "recv", "retry_wait", "done"
    sup_left,           \* seconds left of the main thread's time.sleep(10)
    caught,             \* kinds of exception caught by run_resilient_connection
    msgs,               \* number of messages received so far
    mon_pc,             \* monitoring thread position
    mon_idx,            \* index into ms_since_last of the sampling loop
    mon_left,           \* seconds left of the monitoring thread's sleep
    sms_enabled,
    latest_sms_time,
    faults,             \* exceptions handled by the monitoring thread
    msg_body,           \* categories named by the last staleness message
    notices,            \* send_sms calls made, by kind of message
    delivered           \* whether Twilio has accepted a message

vars == <<schedule, now, advances, twilio_credentials, type_timers,
          ms_since_last, reconnect_count, sup_pc, sup_left, caught, msgs, mon_pc, mon_idx,
          mon_left, sms_enabled, latest_sms_time, faults, msg_body, notices,
          delivered>>

sup_vars == <<reconnect_count, sup_pc, sup_left, caught, msgs>>
mon_vars == <<ms_since_last, mon_pc, mon_idx, mon_left, sms_enabled,
              latest_sms_time, faults, msg_body>>

(* ----------------------------- send_sms -------------------------------- *)
\* Whether both credentials are present (line 137).
HasCredentials(creds) ==
    "None" \notin {creds.account_sid, creds.auth_token}

\* A variant of send_sms that lets a delivery failure escape.
send_sms_unguarded(creds, delivery_ok) ==
    IF HasCredentials(creds)
    THEN IF delivery_ok
         THEN [raised |-> FALSE, delivered |-> TRUE]
         ELSE [raised |-> TRUE, delivered |-> FALSE]
    ELSE [raised |-> FALSE, delivered |-> FALSE]

\* send_sms(msg_body): what the call does, given the credentials and whether
\* the Twilio client delivers.  raised: whether an exception leaves the call.
send_sms(creds, delivery_ok) ==
    IF HasCredentials(creds)
    THEN IF delivery_ok
         THEN [raised |-> FALSE, delivered |-> TRUE]
         ELSE [raised |-> FALSE, delivered |-> FALSE]
    ELSE [raised |-> FALSE, delivered |-> FALSE]

\* One more send_sms call of a kind.  The retry and restart notices are
\* bounded by max_retries; the count of staleness alerts stops at MaxAlerts.
Bump(n, kind) ==
    [n EXCEPT ![kind] = IF kind = "stale" /\ @ >= MaxAlerts THEN @ ELSE @ + 1]

(* --------------------------- initial state ----------------------------- *)
\* __init__ (lines 37-46) and the start of the monitoring timer (181-184).
Constructed ==
    /\ now = StartTime
    /\ advances = 0
    /\ type_timers =
           [c \in Categories |-> IF c # "totalRuntime" THEN 0 ELSE StartTime]
    /\ ms_since_last = [c \in Categories |-> 0]
    /\ reconnect_count = 0
    /\ sup_pc = "connect"
    /\ sup_left = 0
    /\ caught = {}
    /\ msgs = 0
    /\ mon_pc = "timer"
    /\ mon_idx = 1
    /\ mon_left = monitor_start_delay
    /\ sms_enabled = TRUE
    /\ latest_sms_time = 0
    /\ faults = 0
    /\ msg_body = <<>>
    /\ notices = [retry |-> 0, restored |-> 0, stale |-> 0]
    /\ delivered = FALSE

Init ==
    /\ schedule \in Schedules
    /\ twilio_credentials \in
           [auth_token : CredentialValues, account_sid : CredentialValues]
    /\ Constructed

\* Ticks run only while a session is up.
RunningWhileConnected == sup_pc = "recv"

\* The process runs until the main thread leaves run_resilient_connection;
\* the monitoring thread is a daemon and ends with it.
Running == sup_pc # "done"

(* ------------------------------- clock --------------------------------- *)
Max0(n) == IF n > 0 THEN n ELSE 0

\* The main thread is inside websockets.connect, recv or time.sleep(10).
SupervisorBlocked ==
    \/ sup_pc \in {"connect", "recv"}
    \/ sup_pc = "retry_wait" /\ sup_left > 0

\* The monitoring thread is inside the timer wait, time.sleep(5) or the
\* Twilio request of send_sms.
MonitorBlocked ==
    \/ mon_pc \in {"timer", "sleep"} /\ mon_left > 0
    \/ mon_pc = "send"

Advance ==
    /\ Running
    /\ SupervisorBlocked
    /\ MonitorBlocked
    /\ advances < Len(schedule.clock)
    /\ advances' = advances + 1
    /\ LET d == schedule.clock[advances + 1]
       IN /\ now' = now + d
          /\ sup_left' = Max0(sup_left - d)
          /\ mon_left' = Max0(mon_left - d)
    /\ UNCHANGED <<schedule, twilio_credentials, type_timers, ms_since_last,
                   reconnect_count, sup_pc, caught, msgs, mon_pc, mon_idx,
                   sms_enabled, latest_sms_time, faults, msg_body, notices,
                   delivered>>

(* ---------------------- main thread: the supervisor -------------------- *)
\* Stops one failure early.
RetryAllowedBelow(count) == count < max_retries

\* Line 131: whether run_resilient_connection calls itself again.
RetryAllowed(count) == count <= max_retries

\* Reports a restart on the first connection too.
RestartNoticeAlways(count) == count >= 0

\* Line 66: whether monitor_validator reports the restart.
RestartNoticeDue(count) == count > 0

\* The except clause of run_resilient_connection (lines 125-130) up to the
\* start of time.sleep(10), entered with exception ex; sent is the count of
\* send_sms calls made before it.  An exception leaving send_sms here would
\* leave run_resilient_connection too and end the main thread.
ConnectionLost(ex, delivery_ok, sent) ==
    LET r == send_sms(twilio_credentials, delivery_ok) IN
    /\ reconnect_count' = reconnect_count + 1
    /\ caught' = caught \cup {ex}
    /\ notices' = Bump(sent, "retry")
    /\ delivered' = (delivered \/ r.delivered)
    /\ IF r.raised
       THEN sup_pc' = "done" /\ sup_left' = 0
       ELSE sup_pc' = "retry_wait" /\ sup_left' = retry_delay

\* monitor_validator, lines 62-69: connect, subscribe, report a restart.
Connect(outcome, delivery_ok) ==
    /\ sup_pc = "connect"
    /\ IF outcome = "established"
       THEN IF RestartNoticeDue(reconnect_count)
            THEN LET r == send_sms(twilio_credentials, delivery_ok) IN
                 IF r.raised
                 THEN /\ ConnectionLost("SmsError", delivery_ok,
                                         Bump(notices, "restored"))
                      /\ msgs' = msgs
                 ELSE /\ notices' = Bump(notices, "restored")
                      /\ delivered' = (delivered \/ r.delivered)
                      /\ sup_pc' = "recv"
                      /\ UNCHANGED <<reconnect_count, sup_left, caught, msgs>>
            ELSE /\ delivery_ok
                 /\ sup_pc' = "recv"
                 /\ UNCHANGED <<reconnect_count, sup_left, caught, msgs,
                                notices, delivered>>
       ELSE ConnectionLost("TransportError", delivery_ok, notices)
            /\ msgs' = msgs
    /\ UNCHANGED <<schedule, now, advances, twilio_credentials, type_timers>>
    /\ UNCHANGED mon_vars

\* handle_response (lines 53-58): the exception json.loads or the 'type'
\* lookup raises, or "ok".
ParseOutcome(raw) ==
    IF ~raw.json THEN "JSONDecodeError"
    ELSE IF raw.tag = NoTag THEN "KeyError"
    ELSE "ok"

\* Rebuilds the table from the known categories and the tag received.
StampKnown(timers, tag, t) ==
    [k \in (DOMAIN timers \cap Categories) \cup {tag} |->
        IF k = tag THEN t ELSE timers[k]]

\* Line 56: the table after a message tagged tag is received at time t.
Stamp(timers, tag, t) ==
    [k \in DOMAIN timers \cup {tag} |-> IF k = tag THEN t ELSE timers[k]]

\* Reads the tag with response.get('type') on line 56, so that a message
\* without tag is stamped under None before line 57 raises.
handle_response_get(timers, raw, t) ==
    IF ~raw.json THEN [raised |-> "JSONDecodeError", timers |-> timers]
    ELSE IF raw.tag = NoTag
         THEN [raised |-> "KeyError", timers |-> Stamp(timers, NoTag, t)]
         ELSE [raised |-> "ok", timers |-> Stamp(timers, raw.tag, t)]

\* handle_response(response) at time t: the exception it raises, or "ok",
\* and the table it leaves.
handle_response(timers, raw, t) ==
    IF ParseOutcome(raw) = "ok"
    THEN [raised |-> "ok", timers |-> Stamp(timers, raw.tag, t)]
    ELSE [raised |-> ParseOutcome(raw), timers |-> timers]

\* Lines 71-72: web_socket.recv() returns raw and handle_response runs.
Receive(raw, delivery_ok) ==
    /\ sup_pc = "recv"
    /\ msgs < schedule.msgs
    /\ msgs' = msgs + 1
    /\ LET h == handle_response(type_timers, raw, now) IN
       /\ type_timers' = h.timers
       /\ IF h.raised = "ok"
          THEN /\ delivery_ok
               /\ UNCHANGED <<reconnect_count, sup_pc, sup_left, caught,
                              notices, delivered>>
          ELSE ConnectionLost(h.raised, delivery_ok, notices)
    /\ UNCHANGED <<schedule, now, advances, twilio_credentials>>
    /\ UNCHANGED mon_vars

\* Line 72: web_socket.recv() raises (the connection closed).
ReceiveFails(delivery_ok) ==
    /\ sup_pc = "recv"
    /\ ConnectionLost("TransportError", delivery_ok, notices)
    /\ UNCHANGED <<schedule, now, advances, twilio_credentials, type_timers,
                   msgs>>
    /\ UNCHANGED mon_vars

\* Lines 130-132: time.sleep(10) returns; retry or return.
RetryOrStop ==
    /\ sup_pc = "retry_wait"
    /\ sup_left = 0
    /\ sup_pc' = IF RetryAllowed(reconnect_count) THEN "connect" ELSE "done"
    /\ UNCHANGED <<schedule, now, advances, twilio_credentials, type_timers,
                   reconnect_count, sup_left, caught, msgs, notices,
                   delivered>>
    /\ UNCHANGED mon_vars

(* --------------------- monitoring thread: the ticks -------------------- *)
\* Lines 181-184 and 76-77: the timer fires and monitor_response_times
\* starts.
MonitorStart ==
    /\ Running
    /\ mon_pc = "timer"
    /\ mon_left = 0
    /\ sms_enabled' = TRUE
    /\ latest_sms_time' = now
    /\ mon_pc' = "sleep"
    /\ mon_left' = monitor_period
    /\ UNCHANGED <<schedule, now, advances, twilio_credentials, type_timers,
                   ms_since_last, mon_idx, faults, msg_body, notices,
                   delivered>>
    /\ UNCHANGED sup_vars

\* Line 81: time.sleep(5) returns.
Wake ==
    /\ Running
    /\ mon_pc = "sleep"
    /\ mon_left = 0
    /\ mon_pc' = "sample"
    /\ mon_idx' = 1
    /\ UNCHANGED <<schedule, now, advances, twilio_credentials, type_timers,
                   ms_since_last, mon_left, sms_enabled, latest_sms_time,
                   faults, msg_body, notices, delivered>>
    /\ UNCHANGED sup_vars

\* Takes a category never received (the zero sentinel) as not stale.
ElapsedSkipsUnseen(timers, res_type, t) ==
    IF timers[res_type] = 0 THEN 0 ELSE t - timers[res_type]

\* Line 84: the elapsed time of a category at time t.
Elapsed(timers, res_type, t) == t - timers[res_type]

\* Lines 82-84: one iteration of the sampling loop.
Sample ==
    /\ Running
    /\ mon_pc = "sample"
    /\ LET res_type == response_types[mon_idx] IN
       ms_since_last' =
           [ms_since_last EXCEPT
               ![res_type] = Elapsed(type_timers, res_type, now)]
    /\ IF mon_idx < Len(response_types)
       THEN mon_idx' = mon_idx + 1 /\ mon_pc' = "sample"
       ELSE mon_idx' = 1 /\ mon_pc' = "check"
    /\ UNCHANGED <<schedule, now, advances, twilio_credentials, type_timers,
                   mon_left, sms_enabled, latest_sms_time, faults, msg_body, notices,
                   delivered>>
    /\ UNCHANGED sup_vars

\* Compares ledgerClosed against the consensusPhase threshold.
LedgerClosedStaleAtSix(elapsed) == elapsed >= consensus_phase_threshold_seconds

\* Lines 91 and 94: the comparisons against the two thresholds.
LedgerClosedStale(elapsed) == elapsed >= ledger_closed_threshold_seconds
ConsensusPhaseStale(elapsed) == elapsed >= consensus_phase_threshold_seconds

\* Also holds serverStatus against the ledgerClosed threshold.
ComposeBodyWithStatus(elapsed) ==
    (IF LedgerClosedStale(elapsed["ledgerClosed"])
     THEN <<"ledgerClosed">> ELSE <<>>)
    \o (IF ConsensusPhaseStale(elapsed["consensusPhase"])
        THEN <<"consensusPhase">> ELSE <<>>)
    \o (IF LedgerClosedStale(elapsed["serverStatus"])
        THEN <<"serverStatus">> ELSE <<>>)

\* The consensusPhase warning replaces the body instead of extending it.
ComposeBodyOverwrites(elapsed) ==
    IF ConsensusPhaseStale(elapsed["consensusPhase"])
    THEN <<"consensusPhase">>
    ELSE IF LedgerClosedStale(elapsed["ledgerClosed"])
         THEN <<"ledgerClosed">> ELSE <<>>

\* Lines 88-96: the categories the message body names, in the order the
\* body is composed; send_msg is true exactly when the body names one.
ComposeBody(elapsed) ==
    (IF LedgerClosedStale(elapsed["ledgerClosed"])
     THEN <<"ledgerClosed">> ELSE <<>>)
    \o (IF ConsensusPhaseStale(elapsed["consensusPhase"])
        THEN <<"consensusPhase">> ELSE <<>>)

\* Checks the thresholds whether or not alerting is enabled.
ChecksThresholdsAlways(enabled) == TRUE

\* Line 86: whether the tick checks the thresholds at all.
ChecksThresholds(enabled) == enabled

\* Sends the message without disabling alerting.
AfterAlertStillEnabled(t) == [sms_enabled |-> TRUE, latest_sms_time |-> t]

\* Lines 100-101: DebounceState once a message is to be sent at time t.
AfterAlert(t) == [sms_enabled |-> FALSE, latest_sms_time |-> t]

\* Leaves the loop on an exception.
AfterExceptionExit == "exit"

\* Where the monitoring thread goes after an exception (lines 116-118, then
\* the next iteration of while True).
AfterException == "sleep"

\* Lines 86-102: the threshold check, up to the call of send_sms.
Check ==
    /\ Running
    /\ mon_pc = "check"
    /\ LET body == ComposeBody(ms_since_last)
       IN IF ChecksThresholds(sms_enabled) /\ body # <<>>
          THEN /\ sms_enabled' = AfterAlert(now).sms_enabled
               /\ latest_sms_time' = AfterAlert(now).latest_sms_time
               /\ msg_body' = body
               /\ notices' = Bump(notices, "stale")
               /\ mon_pc' = "send"
          ELSE /\ mon_pc' = "rearm"
               /\ UNCHANGED <<sms_enabled, latest_sms_time, msg_body,
                              notices>>
    /\ UNCHANGED <<schedule, now, advances, twilio_credentials, type_timers,
                   ms_since_last, mon_idx, mon_left, faults, delivered>>
    /\ UNCHANGED sup_vars

\* Line 102: send_sms(msg_body) returns to the tick, or raises into it.
SendReturns(delivery_ok) ==
    /\ Running
    /\ mon_pc = "send"
    /\ LET r == send_sms(twilio_credentials, delivery_ok)
       IN /\ delivered' = (delivered \/ r.delivered)
          /\ mon_pc' = IF r.raised THEN "except" ELSE "rearm"
    /\ UNCHANGED <<schedule, now, advances, twilio_credentials, type_timers,
                   ms_since_last, mon_idx, mon_left, sms_enabled,
                   latest_sms_time, faults, msg_body, notices>>
    /\ UNCHANGED sup_vars

\* Takes the gap to be in milliseconds.
GapElapsedMs(time_diff) == time_diff > minimum_sms_gap_seconds * 1000

\* Subtracts the wrong way round on line 106.
GapElapsedReversed(time_diff) == 0 - time_diff > minimum_sms_gap_seconds

\* Line 107: whether enough time has passed since the most recent SMS.
GapElapsed(time_diff) == time_diff > minimum_sms_gap_seconds

\* Lines 105-114: the re-enable check and the diagnostic output.  print or
\* pprint may raise (io_error) after the assignment of line 108.
Rearm(io_error) ==
    /\ Running
    /\ mon_pc = "rearm"
    /\ io_error => faults < MaxFaults
    /\ sms_enabled' =
           IF ~sms_enabled
           THEN GapElapsed(now - latest_sms_time)
           ELSE sms_enabled
    /\ IF io_error
       THEN mon_pc' = "except" /\ mon_left' = mon_left
       ELSE mon_pc' = "sleep" /\ mon_left' = monitor_period
    /\ UNCHANGED <<schedule, now, advances, twilio_credentials, type_timers,
                   ms_since_last, mon_idx, latest_sms_time, faults, msg_body,
                   notices, delivered>>
    /\ UNCHANGED sup_vars

\* Lines 116-118: the exception is logged and the loop goes on.
HandleException ==
    /\ Running
    /\ mon_pc = "except"
    /\ faults' = faults + 1
    /\ mon_pc' = AfterException
    /\ mon_left' = IF AfterException = "sleep" THEN monitor_period ELSE 0
    /\ UNCHANGED <<schedule, now, advances, twilio_credentials, type_timers,
                   ms_since_last, mon_idx, sms_enabled, latest_sms_time,
                   msg_body, notices, delivered>>
    /\ UNCHANGED sup_vars

(* --------------------------- specification ----------------------------- *)
ConnectOutcomes == {"established", "refused"}

Next ==
    \/ Advance
    \/ \E o \in ConnectOutcomes, ok \in BOOLEAN : Connect(o, ok)
    \/ \E raw \in RawMessages, ok \in BOOLEAN : Receive(raw, ok)
    \/ \E ok \in BOOLEAN : ReceiveFails(ok)
    \/ RetryOrStop
    \/ MonitorStart
    \/ Wake
    \/ Sample
    \/ Check
    \/ \E ok \in BOOLEAN : SendReturns(ok)
    \/ \E e \in BOOLEAN : Rearm(e)
    \/ HandleException

Spec == Init /\ [][Next]_vars

(* ------------------ the program running without end -------------------- *)
\* The clock advances by one tick period, then by the SMS gap, again and
\* again; one inbound message arrives.
LiveSchedule ==
    [clock |-> <<monitor_period, minimum_sms_gap_seconds>>, msgs |-> 1]

\* The program compares times only through now - type_timers[c] (against
\* the thresholds) and now - latest_sms_time (against the SMS gap).  Once
\* the clock has reached Horizon, a further advance by d is recorded by
\* moving every timestamp back by d, not below 0: a difference that is cut
\* short this way is still at least Horizon, over the SMS gap and over both
\* thresholds, so every comparison comes out as on the unbounded clock.
Horizon == StartTime + minimum_sms_gap_seconds + retry_delay
Rebase(t, k) == Max0(t - k)

\* The credentials are the ones the script sets (lines 166-169).
LiveInit ==
    /\ schedule = LiveSchedule
    /\ twilio_credentials = [auth_token |-> "None", account_sid |-> "None"]
    /\ Constructed

LiveAdvance ==
    /\ Running
    /\ SupervisorBlocked
    /\ MonitorBlocked
    /\ advances' = (advances + 1) % Len(schedule.clock)
    /\ LET d == schedule.clock[advances + 1]
           k == Max0(now + d - Horizon)
       IN /\ now' = now + d - k
          /\ type_timers' =
                 [c \in DOMAIN type_timers |-> Rebase(type_timers[c], k)]
          /\ latest_sms_time' = Rebase(latest_sms_time, k)
          /\ sup_left' = Max0(sup_left - d)
          /\ mon_left' = Max0(mon_left - d)
    /\ UNCHANGED <<schedule, twilio_credentials, ms_since_last,
                   reconnect_count, sup_pc, caught, msgs, mon_pc, mon_idx,
                   sms_enabled, faults, msg_body, notices, delivered>>

\* A step of the monitoring thread.
MonitorStep ==
    \/ MonitorStart
    \/ Wake
    \/ Sample
    \/ Check
    \/ \E ok \in BOOLEAN : SendReturns(ok)
    \/ \E e \in BOOLEAN : Rearm(e)
    \/ HandleException

LiveNext ==
    \/ LiveAdvance
    \/ \E o \in ConnectOutcomes, ok \in BOOLEAN : Connect(o, ok)
    \/ \E raw \in RawMessages, ok \in BOOLEAN : Receive(raw, ok)
    \/ \E ok \in BOOLEAN : ReceiveFails(ok)
    \/ RetryOrStop
    \/ MonitorStep

\* Time passes, the monitoring thread is scheduled whenever it can run, and
\* time.sleep(10) of the main thread returns.
LiveSpec ==
    /\ LiveInit
    /\ [][LiveNext]_vars
    /\ WF_vars(LiveAdvance)
    /\ WF_vars(MonitorStep)
    /\ WF_vars(RetryOrStop)

(* ------------------------------ properties ----------------------------- *)
MalformedErrors == {"JSONDecodeError", "KeyError"}

\* The tick is at the threshold check / at the re-enable check and leaves it.
CheckStep == mon_pc = "check" /\ mon_pc' # "check"
RearmStep == mon_pc = "rearm" /\ mon_pc' # "rearm"

\* When the tick in progress read the clock for totalRuntime, the last
\* category of its sampling loop.
TickSampledAt == type_timers["totalRuntime"] + ms_since_last["totalRuntime"]

\* The elapsed times the tick computed, against the configured thresholds.
LedgerElapsed == ms_since_last["ledgerClosed"]
ConsensusElapsed == ms_since_last["consensusPhase"]
SomeBreach ==
    \/ LedgerElapsed >= ledger_closed_threshold_seconds
    \/ ConsensusElapsed >= consensus_phase_threshold_seconds

\* C1: when every connection attempt ends in a TransportError, the main
\* thread has issued exactly max_retries (5) retry notifications when it
\* terminates.
C1_FiveRetryNotices ==
    (sup_pc = "done" /\ caught \subseteq {"TransportError"})
        => notices.retry = max_retries

\* C2: in a session established after a TransportError, reconnect_count is
\* back at 0.
C2_CountResetBySession ==
    sup_pc = "recv" => reconnect_count = 0

\* C3: a malformed inbound message never reaches the connection-loss
\* handling: it ends no session, triggers no retry and is not counted in
\* reconnect_count.
C3_MalformedKeepsSession ==
    caught \cap MalformedErrors = {}

\* C4: a tick that finds alerting enabled and a thresholded category in
\* breach makes one send_sms call, disables alerting and records the time
\* of the alert; the rest of the tick makes no further call.
C4_AlertOnBreach ==
    [][ /\ (CheckStep /\ sms_enabled /\ SomeBreach)
            => /\ notices'.stale = notices.stale + 1
               /\ ~sms_enabled'
               /\ latest_sms_time' = now
               /\ mon_pc' = "send"
        /\ mon_pc \in {"send", "rearm", "except"}
            => notices'.stale = notices.stale ]_vars

C4_Witness ==
    /\ mon_pc = "send"
    /\ ~sms_enabled
    /\ latest_sms_time = now
    /\ notices.stale = 1
    /\ SomeBreach

\* C5: while alerting is disabled and less than the SMS gap has passed since
\* the last alert, no step makes a staleness send_sms call.
C5_NoAlertInsideGap ==
    [][ (~sms_enabled /\ now - latest_sms_time < minimum_sms_gap_seconds)
            => notices'.stale = notices.stale ]_vars

\* A tick inside the gap found ledgerClosed in breach, which the alert that
\* started the gap did not name, and sent nothing.
C5_Witness ==
    /\ mon_pc = "rearm"
    /\ ~sms_enabled
    /\ latest_sms_time < now
    /\ now - latest_sms_time < minimum_sms_gap_seconds
    /\ LedgerElapsed >= ledger_closed_threshold_seconds
    /\ msg_body = <<"consensusPhase">>
    /\ notices.stale = 1

\* C6 as stated: the re-enable check of a tick after the alert, finding
\* alerting disabled and at least the SMS gap passed since the alert, enables
\* alerting.
C6_RearmAtGap ==
    [][ (RearmStep /\ ~sms_enabled /\ TickSampledAt > latest_sms_time
            /\ now - latest_sms_time >= minimum_sms_gap_seconds)
            => sms_enabled' ]_vars

\* C6 as amended: the re-enable check of a tick after the alert, finding
\* alerting disabled and more than the SMS gap passed since the alert,
\* enables alerting, whether or not a category is in breach.
C6_RearmAfterGap ==
    [][ (RearmStep /\ ~sms_enabled /\ TickSampledAt > latest_sms_time
            /\ now - latest_sms_time > minimum_sms_gap_seconds)
            => sms_enabled' ]_vars

\* Alerting was re-enabled by a tick that found no category in breach.
C6_Witness ==
    /\ mon_pc = "sleep"
    /\ sms_enabled
    /\ notices.stale = 1
    /\ TickSampledAt > latest_sms_time
    /\ now - latest_sms_time > minimum_sms_gap_seconds
    /\ ~SomeBreach

\* C7 as stated: a tick whose elapsed times are all at most their thresholds
\* sends nothing and leaves alerting as it is.
C7_NoAlertWithinThreshold ==
    [][ (CheckStep
            /\ LedgerElapsed <= ledger_closed_threshold_seconds
            /\ ConsensusElapsed <= consensus_phase_threshold_seconds)
            => (notices'.stale = notices.stale
                /\ sms_enabled' = sms_enabled) ]_vars

\* C7 as amended: a tick whose elapsed times are all below their thresholds
\* sends nothing and leaves alerting as it is.
C7_NoAlertBelowThreshold ==
    [][ (CheckStep
            /\ LedgerElapsed < ledger_closed_threshold_seconds
            /\ ConsensusElapsed < consensus_phase_threshold_seconds)
            => (notices'.stale = notices.stale
                /\ sms_enabled' = sms_enabled) ]_vars

\* An armed tick passed the check with ledgerClosed 6 s old and sent nothing.
C7_Witness ==
    /\ mon_pc = "rearm"
    /\ sms_enabled
    /\ notices.stale = 0
    /\ LedgerElapsed = consensus_phase_threshold_seconds
    /\ ConsensusElapsed < consensus_phase_threshold_seconds

\* C8: the restart notification is sent once by every session established
\* with reconnect_count > 0, and by nothing else.
C8_RestartNoticePerReconnect ==
    [][ notices'.restored = notices.restored +
            (IF sup_pc = "connect" /\ sup_pc' = "recv" /\ reconnect_count > 0
             THEN 1 ELSE 0) ]_vars

\* A second session was established, after a first one that sent no notice.
C8_Witness ==
    /\ sup_pc = "recv"
    /\ reconnect_count = 1
    /\ notices.restored = 1
    /\ msgs > 0

\* C9: send_sms never raises: the tick that called it goes on to the
\* re-enable check with alerting disabled and the alert time kept, the main
\* thread only ends through the retry check, and without both credentials
\* nothing is delivered.
C9_SendNeverRaises ==
    /\ [](~HasCredentials(twilio_credentials) => ~delivered)
    /\ [][ /\ (mon_pc = "send" /\ mon_pc' # "send")
               => /\ mon_pc' = "rearm"
                  /\ ~sms_enabled'
                  /\ latest_sms_time' = latest_sms_time
                  /\ notices' = notices
           /\ sup_pc' = "done" => sup_pc \in {"retry_wait", "done"} ]_vars

\* With credentials present, the delivery of the only alert failed and the
\* tick went on with alerting disabled.
C9_Witness ==
    /\ mon_pc = "rearm"
    /\ HasCredentials(twilio_credentials)
    /\ notices = [retry |-> 0, restored |-> 0, stale |-> 1]
    /\ ~delivered
    /\ ~sms_enabled

\* C10: an exception raised in a tick is logged and the monitoring thread
\* goes on to the sleep of the next tick.
C10_TickSurvivesException ==
    [][ (mon_pc = "except" /\ mon_pc' # "except")
            => (mon_pc' = "sleep" /\ mon_left' = monitor_period
                /\ faults' = faults + 1) ]_vars

\* A tick ran after a tick that raised, while the connection was down.
C10_Witness ==
    /\ faults = 1
    /\ mon_pc = "check"
    /\ sup_pc = "retry_wait"

C12_MalformedLeavesTimers ==
    [][ (sup_pc = "recv" /\ msgs' = msgs + 1
            /\ reconnect_count' = reconnect_count + 1)
            => type_timers' = type_timers ]_vars

\* A message without tag arrived after a ledgerClosed message had been
\* stamped.
C12_Witness ==
    /\ caught = {"KeyError"}
    /\ msgs = 2
    /\ type_timers["ledgerClosed"] > 0
    /\ DOMAIN type_timers = Categories

\* The categories without a threshold, and the categories a body names.
Unthresholded == Categories \ {"ledgerClosed", "consensusPhase"}
Named(body) == {body[i] : i \in 1..Len(body)}

\* C13: a tick that finds a category without threshold stale, however stale,
\* sends an alert or disables alerting only if ledgerClosed or consensusPhase
\* is in breach, and no alert names a category without threshold.
C13_UnthresholdedNeverAlert ==
    /\ [](Named(msg_body) \cap Unthresholded = {})
    /\ [][ (CheckStep
              /\ \E c \in Unthresholded :
                     ms_since_last[c] >= ledger_closed_threshold_seconds)
            => ((notices'.stale # notices.stale \/ sms_enabled' # sms_enabled)
                   => SomeBreach) ]_vars

\* An armed tick found serverStatus and response never received, and
\* totalRuntime over both thresholds, and sent nothing.
C13_Witness ==
    /\ mon_pc = "rearm"
    /\ sms_enabled
    /\ notices.stale = 0
    /\ ms_since_last["serverStatus"] >= StartTime
    /\ ms_since_last["response"] >= StartTime
    /\ ms_since_last["totalRuntime"] > ledger_closed_threshold_seconds

\* C14: the alert a tick hands to send_sms names ledgerClosed exactly when
\* its elapsed time is at or over its threshold, consensusPhase likewise,
\* and nothing else.
C14_BodyNamesBreaches ==
    mon_pc = "send" =>
        /\ "ledgerClosed" \in Named(msg_body)
               <=> LedgerElapsed >= ledger_closed_threshold_seconds
        /\ "consensusPhase" \in Named(msg_body)
               <=> ConsensusElapsed >= consensus_phase_threshold_seconds
        /\ Named(msg_body) \subseteq {"ledgerClosed", "consensusPhase"}
        /\ Len(msg_body) = Cardinality(Named(msg_body))

\* Both categories were in breach and the alert names both, in the order of
\* lines 91 and 94.
C14_Witness ==
    /\ mon_pc = "send"
    /\ msg_body = <<"ledgerClosed", "consensusPhase">>
    /\ LedgerElapsed >= ledger_closed_threshold_seconds
    /\ ConsensusElapsed >= consensus_phase_threshold_seconds

\* C15: while the sampling loop of a tick is under way (it has read some
\* entries of type_timers and not yet all), no step writes type_timers.
C15_NoWriteWhileSampling ==
    [][ (mon_pc = "sample" /\ mon_idx > 1)
            => type_timers' = type_timers ]_vars

\* C16: as long as the main thread has not ended, the monitoring thread can
\* take its next step whenever it is not waiting for time to pass, whether
\* the main thread is connecting, awaiting a message or in its retry delay.
C16_TicksWhateverConnection ==
    (sup_pc # "done" /\ ~(mon_pc \in {"timer", "sleep"} /\ mon_left > 0))
        => ENABLED MonitorStep

\* A tick raised a staleness alert during the retry delay.
C16_Witness ==
    /\ sup_pc = "retry_wait"
    /\ sup_left > 0
    /\ mon_pc = "send"
    /\ latest_sms_time = now
    /\ notices.stale = 1

\* C17: type_timers is changed only by the receipt of a message, which
\* changes no entry but the one it stamps with the time of receipt and
\* removes none; sms_enabled and latest_sms_time are changed only by steps of
\* the monitoring thread, which leave the main thread's state and
\* type_timers alone.
C17_TablesOwnedByTheirLoops ==
    [][ /\ type_timers' # type_timers
               => (sup_pc = "recv" /\ msgs' = msgs + 1 /\ mon_vars' = mon_vars)
        /\ DOMAIN type_timers \subseteq DOMAIN type_timers'
        /\ \A k \in DOMAIN type_timers :
               type_timers'[k] # type_timers[k] => type_timers'[k] = now
        /\ <<sms_enabled, latest_sms_time>>' # <<sms_enabled, latest_sms_time>>
               => /\ mon_pc \in {"timer", "check", "rearm"}
                  /\ sup_vars' = sup_vars
                  /\ type_timers' = type_timers
                  /\ notices'.retry = notices.retry
                  /\ notices'.restored = notices.restored ]_vars

\* After a failure and a reconnect, with both notifications sent during the
\* cooldown, the table still holds the stamps of the first session and the
\* alert time is the one the tick recorded.
C17_Witness ==
    /\ sup_pc = "recv"
    /\ reconnect_count = 1
    /\ notices = [retry |-> 1, restored |-> 1, stale |-> 1]
    /\ "other" \in DOMAIN type_timers
    /\ type_timers["other"] < latest_sms_time
    /\ latest_sms_time < now
    /\ ~sms_enabled

\* C18: an armed tick that reaches the threshold check while ledgerClosed
\* or consensusPhase has never been received sends an alert; so a first
\* tick that sends none has found both received, and below their thresholds.
C18_UnseenCountsAsBreach ==
    [][ (CheckStep /\ sms_enabled
            /\ (type_timers["ledgerClosed"] = 0
                    \/ type_timers["consensusPhase"] = 0))
            => (notices'.stale = notices.stale + 1 /\ ~sms_enabled') ]_vars

\* The first tick alerted on consensusPhase, never received, although
\* ledgerClosed had just been received.
C18_Witness ==
    /\ mon_pc = "send"
    /\ notices.stale = 1
    /\ faults = 0
    /\ type_timers["consensusPhase"] = 0
    /\ type_timers["ledgerClosed"] > 0
    /\ msg_body = <<"consensusPhase">>
    /\ ConsensusElapsed = now

\* The second half of C19: a staleness alert follows the one before it by
\* more than the SMS gap plus one tick period.
C19_AlertsSpaced ==
    [][ (CheckStep /\ notices.stale >= 1
            /\ notices'.stale = notices.stale + 1)
            => now - latest_sms_time
                   > minimum_sms_gap_seconds + monitor_period ]_vars

\* C19: the tick that re-enables alerting is not the tick that sent the
\* last alert (the alert time it finds was recorded before it sampled), and
\* a staleness alert follows the one before it by more than the SMS gap plus
\* one tick period.
C19_RearmingTickSentNothing ==
    [][ /\ (RearmStep /\ ~sms_enabled /\ sms_enabled')
               => latest_sms_time < TickSampledAt
        /\ (CheckStep /\ notices.stale >= 1
               /\ notices'.stale = notices.stale + 1)
               => now - latest_sms_time
                      > minimum_sms_gap_seconds + monitor_period ]_vars

\* A thresholded category is in breach on the clock.
InBreach ==
    \/ LedgerClosedStale(now - type_timers["ledgerClosed"])
    \/ ConsensusPhaseStale(now - type_timers["consensusPhase"])

\* C20: if the main thread never ends and from some time on a thresholded
\* category is always in breach, then a staleness alert is sent again and
\* again, and alerting is re-enabled again and again.
C20_AlertsRecur ==
    ([](sup_pc # "done") /\ <>[]InBreach)
        => ([]<>(mon_pc = "send") /\ []<>sms_enabled)

\* A further alert was sent after a cooldown and a re-enabling, once the
\* clock had reached the horizon.
C20_Witness ==
    /\ mon_pc = "send"
    /\ notices.stale = MaxAlerts
    /\ now = Horizon
    /\ latest_sms_time = now
    /\ InBreach

====
